---- MODULE Spec2Model ----
(***************************************************************************)
(* Limit-up pullback screener (src/app.py).                                *)
(*                                                                         *)
(* Two specifications share this module:                                   *)
(*   Spec      the single-stock evaluation: a price frame grows bar by bar *)
(*             and process_single_stock is applied to it;                  *)
(*   ScanSpec  filter_stocks_multithread: a pool of worker tasks running   *)
(*             process_single_stock, the shared progress counter under the *)
(*             lock, and the main thread collecting the futures.           *)
(*                                                                         *)
(* Prices are integers in thousandths of a currency unit; row positions    *)
(* are 0-based as in pandas' iloc.                                         *)
(***************************************************************************)
EXTENDS Integers, Sequences, FiniteSets, Bags, TLC

\* ---------------------------------------------------------------- bounds
\* Longest price frame the provider returns.
MaxLen == 25
\* Most bars of one frame whose close differs from the previous close.
MaxChanges == 2

\* Closing prices the provider may report (thousandths).
Prices == {1000, 1100, 1214}

\* ------------------------------------------------------- program constants
\* change_pct >= 9.8, in tenths of a percent.
LimitUpTenths == 98
\* second_idx - first_idx <= 10
DoubleWindow == 10
\* len(stock_df) - second_idx >= 13, and the 13-row pullback slice
PullbackDays == 13
\* len(stock_df) - idx >= 14
SingleMinBars == 14

\* ---------------------------------------------------------------- helpers
Min2(a, b) == IF a <= b THEN a ELSE b

\* df.iloc[i], i counted from 0
iloc(df, i) == df[i + 1]

\* df.iloc[a:b]: rows a .. b-1, clipped to the frame
ilocSlice(df, a, b) == SubSeq(df, a + 1, Min2(b, Len(df)))

\* df['close'].min()
CloseMin(df) == CHOOSE m \in {df[k].close : k \in 1..Len(df)} :
                   \A k \in 1..Len(df) : m <= df[k].close

\* round(n / d) to the nearest integer, ties to even, for n >= 0, d > 0
RoundDiv(n, d) ==
    LET q == n \div d
        r == n % d
    IN  IF 2 * r < d THEN q
        ELSE IF 2 * r > d THEN q + 1
        ELSE IF q % 2 = 0 THEN q ELSE q + 1

\* round(price, 2): a price in thousandths rounded to whole hundredths,
\* still expressed in thousandths
Round2(p) == 10 * RoundDiv(p, 10)

\* round((base - low) / base * 100, 2), in hundredths of a percent
PullbackPct(base, low) ==
    IF base = low THEN 0
    ELSE IF base > low THEN RoundDiv((base - low) * 10000, base)
    ELSE 0 - RoundDiv((low - base) * 10000, base)

\* The i-th trading day of the provider's calendar (five sessions a week).
TradeDate(i) == i + 2 * (i \div 5)

\* ---------------------------------------------------------------- detector
\* Faulty variant: the 9.8% threshold is lost, any bar that does not fall is flagged.
is_limit_up_NoThreshold(close_price, pre_close) ==
    IF pre_close = 0 THEN FALSE
    ELSE (close_price - pre_close) * 1000 >= 0

is_limit_up(close_price, pre_close) ==
    IF pre_close = 0 THEN FALSE
    ELSE (close_price - pre_close) * 1000 >= LimitUpTenths * pre_close

RECURSIVE LimitUpFrom(_, _)
LimitUpFrom(stock_df, i) ==
    IF i >= Len(stock_df) THEN <<>>
    ELSE (IF is_limit_up(iloc(stock_df, i).close, iloc(stock_df, i - 1).close)
          THEN <<i>> ELSE <<>>) \o LimitUpFrom(stock_df, i + 1)

find_limit_up_days(stock_df) == LimitUpFrom(stock_df, 1)

\* Faulty variant: the 13-day pullback length is used as the window.
WithinWindow_PullbackLength(first_idx, second_idx) == second_idx - first_idx <= PullbackDays

\* second_idx - first_idx <= 10
WithinWindow(first_idx, second_idx) == second_idx - first_idx <= DoubleWindow

\* len(stock_df) - second_idx >= 13
DoubleHasPullback(n, second_idx) == n - second_idx >= PullbackDays

\* Faulty variant: 14 mistyped as 4.
SingleHasPullback_Typo(n, idx) == n - idx >= 4

\* Faulty variant: >= written as >.
SingleHasPullback_Strict(n, idx) == n - idx > SingleMinBars

\* len(stock_df) - idx >= 14
SingleHasPullback(n, idx) == n - idx >= SingleMinBars

DoubleResult(stock_df, first_idx, second_idx) ==
    LET pullback_df == ilocSlice(stock_df, second_idx, second_idx + PullbackDays)
    IN  [pattern_type |-> "double",
         first_limit_up_date |-> iloc(stock_df, first_idx).date,
         second_limit_up_date |-> iloc(stock_df, second_idx).date,
         pullback_days |-> PullbackDays,
         max_pullback_pct |-> PullbackPct(pullback_df[1].close, CloseMin(pullback_df)),
         latest_price |-> Round2(pullback_df[Len(pullback_df)].close),
         status |-> "ok"]

check_double_limit_up_pattern(stock_df, limit_up_indices) ==
    LET n == Len(limit_up_indices)
        hits == SelectSeq([i \in 1..(n - 1) |-> i],
                  LAMBDA i : /\ WithinWindow(limit_up_indices[i], limit_up_indices[i + 1])
                             /\ DoubleHasPullback(Len(stock_df), limit_up_indices[i + 1]))
    IN  [k \in 1..Len(hits) |->
            DoubleResult(stock_df, limit_up_indices[hits[k]], limit_up_indices[hits[k] + 1])]

SingleResult(stock_df, idx) ==
    LET pullback_df == ilocSlice(stock_df, idx + 1, idx + 14)
    IN  [pattern_type |-> "single",
         limit_up_date |-> iloc(stock_df, idx).date,
         pullback_start_date |-> pullback_df[1].date,
         pullback_days |-> PullbackDays,
         max_pullback_pct |-> PullbackPct(iloc(stock_df, idx).close, CloseMin(pullback_df)),
         latest_price |-> Round2(pullback_df[Len(pullback_df)].close),
         status |-> "ok"]

check_single_limit_up_pattern(stock_df, limit_up_indices) ==
    LET hits == SelectSeq(limit_up_indices,
                  LAMBDA idx : SingleHasPullback(Len(stock_df), idx))
    IN  [k \in 1..Len(hits) |-> SingleResult(stock_df, hits[k])]

\* Faulty variant: the single matches are added to all_results twice.
DetectPatterns_SinglesTwice(stock_df) ==
    IF stock_df = <<>> THEN <<>>
    ELSE LET limit_up_indices == find_limit_up_days(stock_df)
         IN  IF limit_up_indices = <<>> THEN <<>>
             ELSE check_double_limit_up_pattern(stock_df, limit_up_indices)
                  \o check_single_limit_up_pattern(stock_df, limit_up_indices)
                  \o check_single_limit_up_pattern(stock_df, limit_up_indices)

\* The body of process_single_stock between the fetch and the progress
\* update: an empty frame or a frame without limit-up bars gives [].
DetectPatterns(stock_df) ==
    IF stock_df = <<>> THEN <<>>
    ELSE LET limit_up_indices == find_limit_up_days(stock_df)
         IN  IF limit_up_indices = <<>> THEN <<>>
             ELSE check_double_limit_up_pattern(stock_df, limit_up_indices)
                  \o check_single_limit_up_pattern(stock_df, limit_up_indices)

\* ---------------------------------------------------------------- scan data
\* Most stocks in the list handed to filter_stocks_multithread.
MaxStocks == 2
\* max_workers = min(5, total_stocks)
MaxWorkers == 5

\* sector_filter is None (or "all"): no sector filtering
NoFilter == "all"
Sectors == {"bank", "other"}

\* A frame as get_stock_data builds it: sorted by date, one row per session.
MakeFrame(pre0, closes) ==
    [i \in 1..Len(closes) |->
        [date |-> TradeDate(i - 1),
         close |-> closes[i],
         pre_close |-> IF i = 1 THEN pre0 ELSE closes[i - 1]]]

Flat(n, c) == [i \in 1..n |-> c]

\* 15 quiet bars: no limit-up bar.
FrameQuiet == MakeFrame(1000, Flat(15, 1000))
\* 13 bars with a limit-up at row 1: too short for any pattern.
FrameShort == MakeFrame(1000, <<1000>> \o Flat(12, 1100))
\* 16 bars with limit-ups at rows 1 and 2: one double and two single matches.
FrameDouble == MakeFrame(1000, <<1000, 1100>> \o Flat(14, 1214))

\* What get_stock_data may hand back: an empty frame (no token, unknown code,
\* no rows, or an exception swallowed at line 139), a well-formed frame, or a
\* non-empty frame the detector cannot read (a missing or non-numeric column).
ProviderAnswers ==
    {[well_formed |-> TRUE, rows |-> f] : f \in {<<>>, FrameQuiet, FrameShort, FrameDouble}}
    \cup {[well_formed |-> FALSE, rows |-> FrameQuiet]}

NoData == [well_formed |-> TRUE, rows |-> <<>>]

\* for res in all_results: res['stock_code'] = ...; res['stock_name'] = ...; res['sector'] = ...
AddStockInfo(results, stock, sector) ==
    [k \in 1..Len(results) |->
        [f \in (DOMAIN results[k]) \cup {"stock_code", "stock_name", "sector"} |->
            IF f = "stock_code" THEN stock.code
            ELSE IF f = "stock_name" THEN stock.name
            ELSE IF f = "sector" THEN sector
            ELSE results[k][f]]]

\* Faulty variant: the future's result replaces what was collected so far.
ExtendResults_Overwrite(collected, result) == result

\* all_results.extend(result)
ExtendResults(collected, result) == collected \o result

\* ---------------------------------------------------------------- state
VARIABLES
    stock_df,          \* the frame get_stock_data returned to the latest call
    det_results,       \* what that call of process_single_stock returned
    stock_list,        \* the rows handed to filter_stocks_multithread
    sector_filter,     \* its sector_filter argument
    filtering_status,  \* the global dict: running, progress, message
    lock,              \* 0 when free, else the task holding it
    task,              \* per submitted call of process_single_stock: pc and locals
    main_pc,           \* where filter_stocks_multithread stands
    all_results,       \* its all_results list
    consumed,          \* futures as_completed has yielded
    current_progress,  \* its current_progress local
    progress_shown     \* the value given to progress_bar.progress

detvars == <<stock_df, det_results>>
scanvars == <<stock_list, sector_filter, filtering_status, lock, task, main_pc,
              all_results, consumed, current_progress, progress_shown>>
vars == <<detvars, scanvars>>

NumChanges(df) == Cardinality({k \in 1..Len(df) : df[k].close # df[k].pre_close})

\* Module load: filtering_status as line 29 sets it, no scan running.
ScanIdle ==
    /\ filtering_status = [running |-> FALSE, progress |-> 0, message |-> "waiting"]
    /\ lock = 0
    /\ task = [i \in 1..Len(stock_list) |->
                 [pc |-> "unsubmitted", sector |-> "unknown", data |-> NoData,
                  result |-> <<>>, tmp |-> 0]]
    /\ main_pc = "idle"
    /\ all_results = <<>>
    /\ consumed = {}
    /\ current_progress = 0
    /\ progress_shown = 0

\* Before the first trading day the provider has no rows: an empty frame,
\* for which process_single_stock returns [].
DetIdle ==
    /\ stock_df = <<>>
    /\ det_results = DetectPatterns(<<>>)

\* ------------------------------------------------ single-stock evaluation
Init ==
    /\ DetIdle
    /\ stock_list = <<>>
    /\ sector_filter = NoFilter
    /\ ScanIdle

\* One call of process_single_stock on the next trading day: the fetched
\* frame has one more bar (close c, previous close p) and is evaluated afresh.
EvaluateNextDay(c, p) ==
    /\ Len(stock_df) < MaxLen
    /\ p = IF stock_df = <<>> THEN p ELSE stock_df[Len(stock_df)].close
    /\ LET bar == [date |-> TradeDate(Len(stock_df)), close |-> c, pre_close |-> p]
           df == Append(stock_df, bar)
       IN  /\ NumChanges(df) <= MaxChanges
           /\ stock_df' = df
           /\ det_results' = DetectPatterns(df)
    /\ UNCHANGED scanvars

Next == \E c \in Prices, p \in Prices : EvaluateNextDay(c, p)

Spec == Init /\ [][Next]_vars

\* ------------------------------------------------ multithreaded scan
ScanInit ==
    /\ DetIdle
    /\ stock_list \in {[i \in 1..n |-> [code |-> i, name |-> 100 + i]] : n \in 0..MaxStocks}
    /\ sector_filter \in {NoFilter, "bank"}
    /\ ScanIdle

Total == Len(stock_list)
Tasks == 1..Total
Running == {i \in Tasks : task[i].pc \notin {"unsubmitted", "queued", "done"}}
Min5(n) == IF n < MaxWorkers THEN n ELSE MaxWorkers

\* filter_stocks_multithread, lines 275-281: reset the status; an empty list
\* returns at once.
CanBegin == main_pc = "idle"
CanSubmit == main_pc = "submit"
\* the oldest queued call, with a pool thread free to take it
CanStart(i) ==
    /\ task[i].pc = "queued"
    /\ \A k \in 1..(i - 1) : task[k].pc # "queued"
    /\ Cardinality(Running) < Min5(Total)
CanFetch(i) == task[i].pc = "fetch"
CanDetect(i) == task[i].pc = "detect"
\* with lock: blocks while another thread holds it
CanUpdate(i) == task[i].pc = "update" /\ lock = 0
CanStore(i) == task[i].pc = "store"
\* as_completed yields a future once its call has returned
CanCollect(i) == main_pc = "collect" /\ task[i].pc = "done" /\ i \notin consumed
CanShow == main_pc = "show" /\ lock = 0
\* the as_completed loop ends when every future was yielded
CanFinish == main_pc = "collect" /\ consumed = Tasks

Begin ==
    /\ CanBegin
    /\ filtering_status' = [running |-> TRUE, progress |-> 0, message |-> "started"]
    /\ all_results' = <<>>
    /\ main_pc' = IF Total = 0 THEN "returned" ELSE "submit"
    /\ UNCHANGED <<detvars, stock_list, sector_filter, lock, task, consumed,
                   current_progress, progress_shown>>

\* executor.submit for the next row of stock_list; after the last one the
\* progress bar is created at 0.
Submit ==
    /\ CanSubmit
    /\ LET i == CHOOSE j \in Tasks : task[j].pc = "unsubmitted"
                                    /\ \A k \in 1..(j - 1) : task[k].pc # "unsubmitted"
       IN  /\ task' = [task EXCEPT ![i].pc = "queued"]
           /\ main_pc' = IF i = Total THEN "collect" ELSE "submit"
           /\ progress_shown' = IF i = Total THEN 0 ELSE progress_shown
    /\ UNCHANGED <<detvars, stock_list, sector_filter, filtering_status, lock,
                   all_results, consumed, current_progress>>

\* A pool worker takes the oldest queued call and runs the sector filter
\* (lines 232-236); s is get_stock_sector's answer for the stock.
Start(i, s) ==
    /\ CanStart(i)
    /\ IF sector_filter # NoFilter /\ s # sector_filter
       THEN task' = [task EXCEPT ![i].pc = "done", ![i].sector = s, ![i].result = <<>>]
       ELSE task' = [task EXCEPT ![i].pc = "fetch", ![i].sector = s]
    /\ UNCHANGED <<detvars, stock_list, sector_filter, filtering_status, lock, main_pc,
                   all_results, consumed, current_progress, progress_shown>>

\* Lines 239-241: d is what get_stock_data hands back; an empty frame returns [].
Fetch(i, d) ==
    /\ CanFetch(i)
    /\ IF d.rows = <<>>
       THEN task' = [task EXCEPT ![i].pc = "done", ![i].data = d, ![i].result = <<>>]
       ELSE task' = [task EXCEPT ![i].pc = "detect", ![i].data = d]
    /\ UNCHANGED <<detvars, stock_list, sector_filter, filtering_status, lock, main_pc,
                   all_results, consumed, current_progress, progress_shown>>

\* Lines 244-257: an unreadable frame raises into the handler of line 265; a
\* frame without limit-up bars returns []; otherwise both patterns are checked
\* and the stock's information added.
Detect(i) ==
    /\ CanDetect(i)
    /\ IF ~task[i].data.well_formed
       THEN task' = [task EXCEPT ![i].pc = "update", ![i].result = <<>>]
       ELSE IF find_limit_up_days(task[i].data.rows) = <<>>
       THEN task' = [task EXCEPT ![i].pc = "done", ![i].result = <<>>]
       ELSE task' = [task EXCEPT ![i].pc = "update",
                       ![i].result = AddStockInfo(DetectPatterns(task[i].data.rows),
                                                  stock_list[i], task[i].sector)]
    /\ UNCHANGED <<detvars, stock_list, sector_filter, filtering_status, lock, main_pc,
                   all_results, consumed, current_progress, progress_shown>>

\* Lines 260-261 and 267-268: with lock, read filtering_status["progress"].
Update(i) ==
    /\ CanUpdate(i)
    /\ lock' = i
    /\ task' = [task EXCEPT ![i].pc = "store", ![i].tmp = filtering_status.progress]
    /\ UNCHANGED <<detvars, stock_list, sector_filter, filtering_status, main_pc,
                   all_results, consumed, current_progress, progress_shown>>

\* ... write it back plus one, release the lock and return.
Store(i) ==
    /\ CanStore(i)
    /\ filtering_status' = [filtering_status EXCEPT !.progress = task[i].tmp + 1]
    /\ lock' = 0
    /\ task' = [task EXCEPT ![i].pc = "done"]
    /\ UNCHANGED <<detvars, stock_list, sector_filter, main_pc,
                   all_results, consumed, current_progress, progress_shown>>

\* Lines 304-310: as_completed yields a finished future; a non-empty result
\* is appended to all_results.
Collect(i) ==
    /\ CanCollect(i)
    /\ all_results' = IF task[i].result # <<>>
                      THEN ExtendResults(all_results, task[i].result)
                      ELSE all_results
    /\ consumed' = consumed \cup {i}
    /\ main_pc' = "show"
    /\ UNCHANGED <<detvars, stock_list, sector_filter, filtering_status, lock, task,
                   current_progress, progress_shown>>

\* Lines 313-318: read the counter under the lock and show the percentage.
Show ==
    /\ CanShow
    /\ current_progress' = filtering_status.progress
    /\ progress_shown' = (filtering_status.progress * 100) \div Total
    /\ main_pc' = "collect"
    /\ UNCHANGED <<detvars, stock_list, sector_filter, filtering_status, lock, task,
                   all_results, consumed>>

\* Lines 320-326: every future was yielded; the pool is shut down, the status
\* is marked finished and all_results returned.
Finish ==
    /\ CanFinish
    /\ filtering_status' = [filtering_status EXCEPT !.running = FALSE, !.message = "finished"]
    /\ progress_shown' = 100
    /\ main_pc' = "returned"
    /\ UNCHANGED <<detvars, stock_list, sector_filter, lock, task,
                   all_results, consumed, current_progress>>

ScanNext ==
    \/ Begin
    \/ Submit
    \/ \E i \in Tasks, s \in Sectors : Start(i, s)
    \/ \E i \in Tasks, d \in ProviderAnswers : Fetch(i, d)
    \/ \E i \in Tasks : Detect(i)
    \/ \E i \in Tasks : Update(i)
    \/ \E i \in Tasks : Store(i)
    \/ \E i \in Tasks : Collect(i)
    \/ Show
    \/ Finish

ScanSpec == ScanInit /\ [][ScanNext]_vars

\* ------------------------------------------------- vocabulary of the claims
\* The bar at row i closed at least 9.8% above its own previous close.
RoseToLimit(df, i) ==
    /\ iloc(df, i).pre_close > 0
    /\ iloc(df, i).close * 1000 >= 1098 * iloc(df, i).pre_close

\* The row whose date is d.
RowOfDate(df, d) == CHOOSE i \in 0..(Len(df) - 1) : iloc(df, i).date = d

Matches == {det_results[k] : k \in 1..Len(det_results)}
Singles == {r \in Matches : r.pattern_type = "single"}
Doubles == {r \in Matches : r.pattern_type = "double"}
LastRow == Len(stock_df) - 1
\* anchorIndex = length - (lookback + 1)
AnchorRow == Len(stock_df) - 14
FlaggedRows == {i \in 1..LastRow : RoseToLimit(stock_df, i)}

C2_ShortSeriesNoMatch == Len(stock_df) < 14 => det_results = <<>>

\* A 13-bar frame that does hold a limit-up bar, evaluated to no match.
C2_Witness ==
    /\ Len(stock_df) = 13
    /\ FlaggedRows # {}
    /\ det_results = <<>>

C4_SingleOnlyWithoutFollowUp ==
    \A r \in Singles :
        LET a == RowOfDate(stock_df, r.limit_up_date)
        IN  \A i \in (a + 1)..LastRow : ~RoseToLimit(stock_df, i)

OnlyAnchorRose ==
    /\ AnchorRow >= 0
    /\ RoseToLimit(stock_df, AnchorRow)
    /\ \A i \in 0..LastRow : i # AnchorRow => ~RoseToLimit(stock_df, i)

OneSingleAtAnchor ==
    /\ Len(det_results) = 1
    /\ det_results[1].pattern_type = "single"
    /\ det_results[1].limit_up_date = iloc(stock_df, AnchorRow).date

\* C6 as stated: for every frame of at least 14 bars whose anchor bar (row
\* length - 14) is the only limit-up bar, the result is exactly one single
\* match at the anchor, the 14-bar frame anchored at row 0 included.
C6_OnlyAnchorGivesSingle == OnlyAnchorRose => OneSingleAtAnchor

\* C6 amended: the same for every frame of at least 15 bars (anchor row >= 1);
\* a 14-bar frame yields no match, since row 0 is never flagged.
C6_OnlyAnchorGivesSingleFrom15 ==
    /\ (Len(stock_df) >= 15 /\ OnlyAnchorRose) => OneSingleAtAnchor
    /\ Len(stock_df) = 14 => det_results = <<>>

\* A 15-bar frame whose row 1 is the only limit-up bar, matched as single.
C6_Witness ==
    /\ Len(stock_df) = 15
    /\ OnlyAnchorRose
    /\ OneSingleAtAnchor

\* ------------------------------------------------------------------ C10
\* C10: every match's latest_price is the close of the last bar of the frame
\* (to the two decimals the code rounds to).
C10_LatestPriceIsLastClose ==
    \A r \in Matches : r.latest_price = Round2(iloc(stock_df, LastRow).close)

\* ------------------------------------------------- vocabulary of the scan claims
RECURSIVE SeqToBag(_)
SeqToBag(q) == IF q = <<>> THEN EmptyBag ELSE SetToBag({Head(q)}) (+) SeqToBag(Tail(q))

\* The stock was skipped: filtered out by sector, no rows, or a frame that
\* makes the detector raise.
Skipped(i) ==
    \/ sector_filter # NoFilter /\ task[i].sector # sector_filter
    \/ task[i].data.rows = <<>>
    \/ ~task[i].data.well_formed

\* What stock i alone contributes.
Contribution(i) ==
    IF Skipped(i) THEN <<>>
    ELSE AddStockInfo(DetectPatterns(task[i].data.rows), stock_list[i], task[i].sector)

RECURSIVE ContributionsUpTo(_)
ContributionsUpTo(n) ==
    IF n = 0 THEN EmptyBag ELSE SeqToBag(Contribution(n)) (+) ContributionsUpTo(n - 1)

\* ------------------------------------------------------------------ C7
\* C7: whatever stocks fail and however the workers interleave, the scan is
\* never stuck before it returns, and what it returns is exactly the multiset
\* union of the contributions of the stocks that were not skipped.
SomeStepEnabled ==
    \/ CanBegin \/ CanSubmit \/ CanShow \/ CanFinish
    \/ \E i \in Tasks : \/ CanStart(i) \/ CanFetch(i) \/ CanDetect(i)
                         \/ CanUpdate(i) \/ CanStore(i) \/ CanCollect(i)

C7_ScanReturnsUnion ==
    /\ main_pc # "returned" => SomeStepEnabled
    /\ main_pc = "returned" => SeqToBag(all_results) = ContributionsUpTo(Total)

\* A returned scan in which one stock raised and another contributed matches.
C7_Witness ==
    /\ main_pc = "returned"
    /\ \E i \in Tasks : ~task[i].data.well_formed
    /\ \E i \in Tasks : Contribution(i) # <<>>
    /\ all_results # <<>>

\* ------------------------------------------------------------------ C8
\* C8: every call increments progress exactly once, so progress equals the
\* number of stocks when filter_stocks_multithread returns.
C8_ProgressCountsEveryStock ==
    main_pc = "returned" => filtering_status.progress = Total

\* ------------------------------------------------------------------ C9
\* C9: running is True while a scan is in progress and False whenever
\* filter_stocks_multithread has returned.
C9_RunningFalseAfterReturn ==
    /\ main_pc \in {"submit", "collect", "show"} => filtering_status.running
    /\ main_pc = "returned" => ~filtering_status.running

====
